---- MODULE Spec2Model ----
(***************************************************************************)
(* Model of pkg/tbtree/tbtree.go: the timed B-tree (TBtree), its leaf and  *)
(* inner nodes, the copy-on-write insertion with node splitting, and the   *)
(* snapshot table guarded by the tree's rwmutex.                           *)
(*                                                                         *)
(* Nodes live in a heap (a sequence indexed by address) because the Go     *)
(* code holds them by pointer: split() mutates its receiver in place, and  *)
(* snapshots share nodes with the current root.                            *)
(***************************************************************************)
EXTENDS Integers, Sequences, FiniteSets, TLC

\* ------------------------------------------------------------------ bounds

\* Largest timestamp a caller passes to Insert.
MaxTs == 3
\* Largest number of snapshots newSnapshot creates in one run.
MaxSnapshots == 2
\* The insertionCountThreshold option the trees are built with.
Threshold == 1
\* Number of entries, and largest timestamp, of the small-key scenario.
ScenarioLen == 4
\* Number of goroutines that call the tree concurrently.
NumThreads == 2

\* ------------------------------------------------------- program constants

MinNodeSize == 64

\* ------------------------------------------------------------ byte strings

\* A byte slice of n bytes, all equal to b.
Rep(n, b) == [i \in 1..n |-> b]

\* bytes.Compare: lexicographic order on byte slices, -1, 0 or 1.
Compare(a, b) ==
  LET n == IF Len(a) < Len(b) THEN Len(a) ELSE Len(b)
      d == {i \in 1..n : a[i] # b[i]}
  IN  IF d = {}
      THEN (IF Len(a) < Len(b) THEN -1 ELSE IF Len(a) > Len(b) THEN 1 ELSE 0)
      ELSE LET i == CHOOSE x \in d : \A y \in d : x <= y
           IN  IF a[i] < b[i] THEN -1 ELSE 1

\* bytes.Equal.
Equal(a, b) == Compare(a, b) = 0

\* A []byte argument: nil or a (possibly empty) slice. bytes.Compare and len
\* treat nil as the empty slice, so the bytes of nil are <<>>.
NilBytes == [isNil |-> TRUE, bytes |-> <<>>]
Bytes(s) == [isNil |-> FALSE, bytes |-> s]

\* The keys and values callers insert. LongKey1 and LongKey2 are 33 bytes
\* each, so two of them exceed an inner node's budget of MinNodeSize;
\* LongValue makes a one-byte-key entry 65 bytes, one more than MinNodeSize.
LongKey1 == Rep(33, 2)
LongKey2 == Rep(33, 3)
ShortValue == <<7>>
LongValue == Rep(48, 9)

KeyInputs ==
  {NilBytes, Bytes(<<>>), Bytes(<<1>>), Bytes(<<2>>), Bytes(LongKey1),
   Bytes(LongKey2)}

\* The (key, value) pairs of the Insert calls.
InsertInputs ==
  {<<k, ShortValue>> : k \in KeyInputs} \cup {<<Bytes(<<1>>), LongValue>>}

TsInputs == 0..MaxTs

\* ------------------------------------------------------------------- nodes

NilNode == 0

\* leafValue.size counting three 8-byte fields instead of two.
EntrySizeWide(lv) == 24 + Len(lv.key) + Len(lv.value)

\* leafValue.size
EntrySize(lv) == 16 + Len(lv.key) + Len(lv.value)

LeafValue(key, ts, prevTs, value) ==
  [key |-> key, ts |-> ts, prevTs |-> prevTs, value |-> value]

ChildRef(key, cts, node) == [key |-> key, cts |-> cts, node |-> node]

\* leafNode and innerNode share one record shape; a leaf has no nodes and an
\* inner node no values.
LeafNode(prevNode, values, cts, csize, maxSize) ==
  [kind |-> "leaf", prevNode |-> prevNode, values |-> values, nodes |-> <<>>,
   cts |-> cts, csize |-> csize, maxSize |-> maxSize]

InnerNode(prevNode, nodes, cts, csize, maxSize) ==
  [kind |-> "inner", prevNode |-> prevNode, values |-> <<>>, nodes |-> nodes,
   cts |-> cts, csize |-> csize, maxSize |-> maxSize]

\* node.ts()
Ts(h, a) == h[a].cts

\* maxKey() indexes the last element: it panics on a node that has none.
MaxKeyPanics(h, a) ==
  IF h[a].kind = "leaf" THEN Len(h[a].values) = 0 ELSE Len(h[a].nodes) = 0

\* node.maxKey(), where it does not panic.
MaxKey(h, a) ==
  IF h[a].kind = "leaf"
  THEN h[a].values[Len(h[a].values)].key
  ELSE h[a].nodes[Len(h[a].nodes)].key

\* --------------------------------------------------------------- leaf node

\* leafNode.indexOf: the position of key among the values and whether it is
\* there. Positions are 1-based here: Go's index i is i + 1.
LeafIndexOf(values, key) ==
  LET hits == {i \in 1..Len(values) :
                 Equal(values[i].key, key) \/ Compare(values[i].key, key) = 1}
  IN  IF hits = {}
      THEN [index |-> Len(values) + 1, found |-> FALSE]
      ELSE LET i == CHOOSE x \in hits : \A y \in hits : x <= y
           IN  [index |-> i, found |-> Equal(values[i].key, key)]

\* The loop of splitInfo over the sizes of a node's elements, from Go index i
\* on. splitIndex is Go's: the number of elements that stay in the left node.
RECURSIVE SplitInfoLoop(_, _, _, _, _)
SplitInfoLoop(sizes, maxSize, i, splitIndex, splitSize) ==
  IF i >= Len(sizes)
  THEN [splitIndex |-> splitIndex, splitSize |-> splitSize]
  ELSE IF splitSize + sizes[i + 1] > maxSize
       THEN [splitIndex |-> i, splitSize |-> splitSize]
       ELSE SplitInfoLoop(sizes, maxSize, i + 1, i, splitSize + sizes[i + 1])

\* leafNode.splitInfo
LeafSplitInfo(values, maxSize) ==
  SplitInfoLoop([i \in 1..Len(values) |-> EntrySize(values[i])], maxSize, 0, 0, 0)

\* The largest of a sequence of timestamps, 0 for none (both updateTs loops).
MaxTsOf(tss) ==
  IF Len(tss) = 0 THEN 0
  ELSE CHOOSE m \in {tss[i] : i \in 1..Len(tss)} :
         \A i \in 1..Len(tss) : tss[i] <= m

\* updateTs taking the ts of the last value.
LeafUpdateTsOfLast(values) ==
  IF Len(values) = 0 THEN 0 ELSE values[Len(values)].ts

\* leafNode.updateTs
LeafUpdateTs(values) == MaxTsOf([i \in 1..Len(values) |-> values[i].ts])

\* leafNode.split on the leaf at address a: the heap after it and the address
\* of the new right leaf (NilNode when the leaf is within its budget). The
\* receiver is cut down in place.
LeafSplit(h, a) ==
  LET l == h[a]
      info == LeafSplitInfo(l.values, l.maxSize)
      right == SubSeq(l.values, info.splitIndex + 1, Len(l.values))
      left == SubSeq(l.values, 1, info.splitIndex)
      newLeaf == LeafNode(NilNode, right, LeafUpdateTs(right),
                          l.csize - info.splitSize, l.maxSize)
      cut == [l EXCEPT !.values = left, !.csize = info.splitSize,
                       !.cts = LeafUpdateTs(left)]
  IN  IF l.csize <= l.maxSize
      THEN [heap |-> h, node |-> NilNode]
      ELSE [heap |-> Append([h EXCEPT ![a] = cut], newLeaf), node |-> Len(h) + 1]

\* LeafReplace overwriting the leaf it was given instead of a copy of it.
LeafReplaceInPlace(h, a, i, key, value, ts) ==
  LET l == h[a]
      lv == LeafValue(key, ts, l.values[i].ts, value)
      newLeaf == [l EXCEPT !.values[i] = lv, !.cts = ts]
  IN  [heap |-> [h EXCEPT ![a] = newLeaf], n1 |-> a, n2 |-> NilNode,
       err |-> "nil"]

\* LeafReplace giving the new entry prevTs 0, as a first insertion has.
LeafReplaceNoPrevTs(h, a, i, key, value, ts) ==
  LET l == h[a]
      lv == LeafValue(key, ts, 0, value)
      newLeaf == LeafNode(a, [l.values EXCEPT ![i] = lv], ts, l.csize, l.maxSize)
  IN  [heap |-> Append(h, newLeaf), n1 |-> Len(h) + 1, n2 |-> NilNode,
       err |-> "nil"]

\* leafNode.insertAt, the branch for a key the leaf holds: a copy of the leaf
\* with the entry replaced and csize carried over.
LeafReplace(h, a, i, key, value, ts) ==
  LET l == h[a]
      lv == LeafValue(key, ts, l.values[i].ts, value)
      newLeaf == LeafNode(a, [l.values EXCEPT ![i] = lv], ts, l.csize, l.maxSize)
  IN  [heap |-> Append(h, newLeaf), n1 |-> Len(h) + 1, n2 |-> NilNode,
       err |-> "nil"]

\* LeafAdd copying the tail from one entry too far, so that the entry the new
\* one displaces is lost.
LeafAddTailOffByOne(h, a, i, key, value, ts) ==
  LET l == h[a]
      lv == LeafValue(key, ts, 0, value)
      values == SubSeq(l.values, 1, i - 1) \o <<lv>>
                  \o SubSeq(l.values, i + 1, Len(l.values))
      newLeaf == LeafNode(a, values, ts, l.csize + EntrySize(lv), l.maxSize)
      s == LeafSplit(Append(h, newLeaf), Len(h) + 1)
  IN  [heap |-> s.heap, n1 |-> Len(h) + 1, n2 |-> s.node, err |-> "nil"]

\* leafNode.insertAt, the branch for a new key: a copy of the leaf with the
\* entry inserted at i, then split.
LeafAdd(h, a, i, key, value, ts) ==
  LET l == h[a]
      lv == LeafValue(key, ts, 0, value)
      values == SubSeq(l.values, 1, i - 1) \o <<lv>>
                  \o SubSeq(l.values, i, Len(l.values))
      newLeaf == LeafNode(a, values, ts, l.csize + EntrySize(lv), l.maxSize)
      s == LeafSplit(Append(h, newLeaf), Len(h) + 1)
  IN  [heap |-> s.heap, n1 |-> Len(h) + 1, n2 |-> s.node, err |-> "nil"]

\* leafNode.insertAt
LeafInsertAt(h, a, key, value, ts) ==
  LET io == LeafIndexOf(h[a].values, key)
  IN  IF io.found
      THEN LeafReplace(h, a, io.index, key, value, ts)
      ELSE LeafAdd(h, a, io.index, key, value, ts)

\* The result of a get.
KeyNotFound == [err |-> "KeyNotFound", value |-> <<>>, ts |-> 0]
Found(value, ts) == [err |-> "nil", value |-> value, ts |-> ts]

\* leafNode.get
LeafGet(l, key) ==
  LET io == LeafIndexOf(l.values, key)
  IN  IF ~io.found THEN KeyNotFound
      ELSE Found(l.values[io.index].value, l.values[io.index].ts)

\* -------------------------------------------------------------- inner node

\* innerNode.indexOf, 1-based: the first child whose key is not below key,
\* else the last child.
InnerIndexOf(nodes, key) ==
  LET hits == {i \in 1..Len(nodes) : Compare(key, nodes[i].key) < 1}
  IN  IF hits = {} THEN Len(nodes)
      ELSE CHOOSE x \in hits : \A y \in hits : x <= y

\* innerNode.updateSize
InnerUpdateSize(nodes) ==
  LET RECURSIVE Sum(_)
      Sum(i) == IF i = 0 THEN 0 ELSE Sum(i - 1) + Len(nodes[i].key)
  IN  Sum(Len(nodes))

\* innerNode.updateTs
InnerUpdateTs(nodes) == MaxTsOf([i \in 1..Len(nodes) |-> nodes[i].cts])

\* innerNode.splitInfo
InnerSplitInfo(nodes, maxSize) ==
  SplitInfoLoop([i \in 1..Len(nodes) |-> Len(nodes[i].key)], maxSize, 0, 0, 0)

\* innerNode.split on the node at address a, as LeafSplit.
InnerSplit(h, a) ==
  LET n == h[a]
      info == InnerSplitInfo(n.nodes, n.maxSize)
      right == SubSeq(n.nodes, info.splitIndex + 1, Len(n.nodes))
      left == SubSeq(n.nodes, 1, info.splitIndex)
      newNode == InnerNode(NilNode, right, InnerUpdateTs(right),
                           n.csize - info.splitSize, n.maxSize)
      cut == [n EXCEPT !.nodes = left, !.csize = info.splitSize,
                       !.cts = InnerUpdateTs(left)]
  IN  IF n.csize <= n.maxSize
      THEN [heap |-> h, node |-> NilNode]
      ELSE [heap |-> Append([h EXCEPT ![a] = cut], newNode), node |-> Len(h) + 1]

\* A call that panicked: what it allocated is unreachable, the heap is the
\* one it was given.
Panicked(h) == [heap |-> h, n1 |-> NilNode, n2 |-> NilNode, err |-> "panic"]

\* InnerReplaceChild leaving the cts of the old child in the slot.
InnerReplaceChildStaleTs(h, a, i, c1, ts) ==
  LET n == h[a]
      nodes == [n.nodes EXCEPT ![i] = ChildRef(MaxKey(h, c1), n.nodes[i].cts, c1)]
      newNode == InnerNode(a, nodes, ts, InnerUpdateSize(nodes), n.maxSize)
  IN  IF MaxKeyPanics(h, c1) THEN Panicked(h)
      ELSE [heap |-> Append(h, newNode), n1 |-> Len(h) + 1, n2 |-> NilNode,
            err |-> "nil"]

\* innerNode.insertAt after the child returned one node c1: a copy of the
\* node whose slot i refers to c1; no split.
InnerReplaceChild(h, a, i, c1, ts) ==
  LET n == h[a]
      nodes == [n.nodes EXCEPT ![i] = ChildRef(MaxKey(h, c1), Ts(h, c1), c1)]
      newNode == InnerNode(a, nodes, ts, InnerUpdateSize(nodes), n.maxSize)
  IN  IF MaxKeyPanics(h, c1) THEN Panicked(h)
      ELSE [heap |-> Append(h, newNode), n1 |-> Len(h) + 1, n2 |-> NilNode,
            err |-> "nil"]

\* innerNode.insertAt after the child returned two nodes c1 and c2: a copy
\* of the node with c1 at slot i and c2 at slot i + 1, then split.
InnerAddChild(h, a, i, c1, c2, ts) ==
  LET n == h[a]
      nodes == SubSeq(n.nodes, 1, i - 1)
                 \o <<ChildRef(MaxKey(h, c1), Ts(h, c1), c1),
                      ChildRef(MaxKey(h, c2), Ts(h, c2), c2)>>
                 \o SubSeq(n.nodes, i + 1, Len(n.nodes))
      newNode == InnerNode(a, nodes, ts, InnerUpdateSize(nodes), n.maxSize)
      s == InnerSplit(Append(h, newNode), Len(h) + 1)
  IN  IF MaxKeyPanics(h, c1) \/ MaxKeyPanics(h, c2) THEN Panicked(h)
      ELSE [heap |-> s.heap, n1 |-> Len(h) + 1, n2 |-> s.node, err |-> "nil"]

\* node.insertAt on the node at address a: the heap after it, the node n1
\* that replaces a, the node n2 split off it (or NilNode), and err, "nil" or
\* "panic".
RECURSIVE InsertAt(_, _, _, _, _)

\* innerNode.insertAt
InnerInsertAt(h, a, key, value, ts) ==
  LET i == InnerIndexOf(h[a].nodes, key)
      c == InsertAt(h, h[a].nodes[i].node, key, value, ts)
  IN  IF c.err # "nil" THEN Panicked(c.heap)
      ELSE IF c.n2 = NilNode
           THEN InnerReplaceChild(c.heap, a, i, c.n1, ts)
           ELSE InnerAddChild(c.heap, a, i, c.n1, c.n2, ts)

InsertAt(h, a, key, value, ts) ==
  IF h[a].kind = "leaf"
  THEN LeafInsertAt(h, a, key, value, ts)
  ELSE InnerInsertAt(h, a, key, value, ts)

\* node.get on the node at address a.
RECURSIVE Get(_, _, _)

\* innerNode.get
InnerGet(h, n, key) ==
  LET i == InnerIndexOf(n.nodes, key)
  IN  IF Compare(key, n.nodes[i].key) = 1 THEN KeyNotFound
      ELSE Get(h, n.nodes[i].node, key)

Get(h, a, key) ==
  IF h[a].kind = "leaf" THEN LeafGet(h[a], key) ELSE InnerGet(h, h[a], key)

\* ------------------------------------------------------------ findLeafNode

\* What findLeafNode returns: with err "nil", the inner nodes it went through,
\* the address of the leaf and the position in it (1-based, as everywhere
\* here).
Located(path, leaf, index) ==
  [err |-> "nil", path |-> path, leaf |-> leaf, index |-> index]

NotLocated == [err |-> "KeyNotFound", path |-> <<>>, leaf |-> NilNode, index |-> 0]

\* The test of the forward scan (lines 313 and 473) on the key of an element.
\* neqKey is nil or a byte string; bytes.Compare takes nil for empty.
ForwardHit(key, keyPrefix, neqKey) ==
  Compare(keyPrefix, key) < 1 /\ Compare(key, neqKey.bytes) = 1

\* The test of the backward scan (lines 325 and 485).
BackwardHit(key, keyPrefix, neqKey) ==
  Compare(key, keyPrefix) < 1 /\ Compare(key, neqKey.bytes) < 0

\* leafNode.findLeafNode on the leaf at address a.
LeafFindLeafNode(h, a, keyPrefix, path, neqKey, ascOrder) ==
  LET vs == h[a].values
  IN  IF ascOrder \/ neqKey.isNil
      THEN LET hits == {i \in 1..Len(vs) : ForwardHit(vs[i].key, keyPrefix, neqKey)}
           IN  IF hits # {}
               THEN Located(path, a, CHOOSE i \in hits : \A j \in hits : i <= j)
               ELSE IF ascOrder \/ Len(vs) = 0 THEN NotLocated
               ELSE Located(path, a, Len(vs))
      ELSE LET hits == {i \in 1..Len(vs) : BackwardHit(vs[i].key, keyPrefix, neqKey)}
           IN  IF hits # {}
               THEN Located(path, a, CHOOSE i \in hits : \A j \in hits : j <= i)
               ELSE NotLocated

\* node.findLeafNode on the node at address a.
RECURSIVE FindLeafNode(_, _, _, _, _, _)

\* innerNode.findLeafNode on the inner node at address a. Indexing the last
\* child of a node without children panics.
InnerFindLeafNode(h, a, keyPrefix, path, neqKey, ascOrder) ==
  LET ns == h[a].nodes
      Down(i) == FindLeafNode(h, ns[i].node, keyPrefix, Append(path, a), neqKey,
                              ascOrder)
  IN  IF ascOrder \/ neqKey.isNil
      THEN LET hits == {i \in 1..Len(ns) : ForwardHit(ns[i].key, keyPrefix, neqKey)}
           IN  IF hits # {}
               THEN Down(CHOOSE i \in hits : \A j \in hits : i <= j)
               ELSE IF ascOrder THEN NotLocated
               ELSE IF Len(ns) = 0 THEN [NotLocated EXCEPT !.err = "panic"]
               ELSE Down(Len(ns))
      ELSE LET hits == {i \in 1..Len(ns) : BackwardHit(ns[i].key, keyPrefix, neqKey)}
           IN  IF hits # {}
               THEN Down(CHOOSE i \in hits : \A j \in hits : j <= i)
               ELSE NotLocated

FindLeafNode(h, a, keyPrefix, path, neqKey, ascOrder) ==
  IF h[a].kind = "leaf"
  THEN LeafFindLeafNode(h, a, keyPrefix, path, neqKey, ascOrder)
  ELSE InnerFindLeafNode(h, a, keyPrefix, path, neqKey, ascOrder)

\* -------------------------------------------------------------------- tree

VARIABLES
  heap,                     \* the nodes allocated so far, by address
  root,                     \* TBtree.root, an address
  insertionCount,           \* TBtree.insertionCount
  snapshots,                \* TBtree.snapshots: id -> Snapshot
  maxSnapshotId,            \* TBtree.maxSnapshotId
  closed,                   \* TBtree.closed
  rwmutex,                  \* TBtree.rwmutex: "unlocked" or "locked"
  crashed,                  \* a call panicked: the process is gone
  lastOp,                   \* the last call: its name, error and returned snapshot
  inserted,                 \* the successful Insert calls, in order
  threads                   \* each goroutine: where it is in the call it makes

vars ==
  <<heap, root, insertionCount, snapshots, maxSnapshotId, closed, rwmutex,
    crashed, lastOp, inserted, threads>>

\* TBtree.maxNodeSize: the trees are built with the smallest node size NewWith
\* accepts.
maxNodeSize == MinNodeSize

\* TBtree.insertionCountThreshold
insertionCountThreshold == Threshold

\* SnapshotOf capturing the version before the current root.
SnapshotOfPrevNode(id, rt) ==
  [id |-> id,
   root |-> IF heap[rt].prevNode = NilNode THEN rt ELSE heap[rt].prevNode]

\* Snapshot: its id and the root it captured (its readers are not modelled).
SnapshotOf(id, rt) == [id |-> id, root |-> rt]

\* A nil *Snapshot.
NilSnapshot == [id |-> -1, root |-> NilNode]

\* What a call returned: err is "nil" or the name of the error; "panic" is an
\* index-out-of-range panic and "deadlock" a call that never returns.
Returned(op, err, snap) == [op |-> op, err |-> err, ret |-> snap]

\* The goroutines that call the tree.
Threads == 1..NumThreads

\* A goroutine outside any call.
Idle == [pc |-> "idle", call |-> [op |-> "none"], local |-> [err |-> "none"]]

\* NewWith, with options it accepts.
Init ==
  /\ heap = <<LeafNode(NilNode, <<>>, 0, 0, maxNodeSize)>>
  /\ root = 1
  /\ insertionCount = 0
  /\ snapshots = <<>>
  /\ maxSnapshotId = 0
  /\ closed = FALSE
  /\ rwmutex = "unlocked"
  /\ crashed = FALSE
  /\ lastOp = Returned("NewWith", "nil", NilSnapshot)
  /\ inserted = <<>>
  /\ threads = [t \in Threads |-> Idle]

\* rwmutex.Lock() returns: the mutex is free and the process is alive. Every
\* handler holds the lock from entry to return, so a handler is one step.
Locks == ~crashed /\ rwmutex = "unlocked"

\* NewRoot taking its cts from its left child instead of the inserted ts.
NewRootLeftTs(h, rt, n1, n2, ts) ==
  LET ns == <<ChildRef(MaxKey(h, n1), Ts(h, n1), n1),
              ChildRef(MaxKey(h, n2), Ts(h, n2), n2)>>
  IN  InnerNode(rt, ns, Ts(h, n1), InnerUpdateSize(ns), maxNodeSize)

\* Insert, lines 185-193: the new root over the two halves n1 and n2 of the
\* old one.
NewRoot(h, rt, n1, n2, ts) ==
  LET ns == <<ChildRef(MaxKey(h, n1), Ts(h, n1), n1),
              ChildRef(MaxKey(h, n2), Ts(h, n2), n2)>>
  IN  InnerNode(rt, ns, ts, InnerUpdateSize(ns), maxNodeSize)

\* Insert, lines 173-195, on heap h and root rt: the heap and root after it,
\* whether insertionCount was incremented, and err, "nil" or "panic".
InsertRoot(h, rt, key, value, ts) ==
  LET r == InsertAt(h, rt, key, value, ts)
  IN  IF r.err # "nil"
      THEN [heap |-> r.heap, root |-> rt, counted |-> FALSE, err |-> r.err]
      ELSE IF r.n2 = NilNode
      THEN [heap |-> r.heap, root |-> r.n1, counted |-> TRUE, err |-> "nil"]
      ELSE IF MaxKeyPanics(r.heap, r.n1) \/ MaxKeyPanics(r.heap, r.n2)
      THEN [heap |-> r.heap, root |-> rt, counted |-> TRUE, err |-> "panic"]
      ELSE [heap |-> Append(r.heap, NewRoot(r.heap, rt, r.n1, r.n2, ts)),
            root |-> Len(r.heap) + 1, counted |-> TRUE, err |-> "nil"]

\* Insert, lines 165-176: what the call reads from the tree and computes, the
\* heap and root it is about to publish and its err.
InsertResult(key, value, ts) ==
  IF closed
  THEN [heap |-> heap, root |-> root, counted |-> FALSE, err |-> "AlreadyClosed"]
  ELSE IF key.isNil \/ Ts(heap, root) >= ts
  THEN [heap |-> heap, root |-> root, counted |-> FALSE, err |-> "IllegalArgument"]
  ELSE InsertRoot(heap, root, key.bytes, value, ts)

\* Insert, lines 178-195 and its returns: the call writes what it computed.
InsertWrites(r, key, value, ts) ==
  /\ heap' = r.heap
  /\ root' = r.root
  /\ insertionCount' = IF r.counted THEN insertionCount + 1 ELSE insertionCount
  /\ crashed' = (r.err = "panic")
  /\ lastOp' = Returned("Insert", r.err, NilSnapshot)
  /\ inserted' = IF r.err = "nil"
                 THEN Append(inserted, [key |-> key.bytes, value |-> value,
                                        ts |-> ts])
                 ELSE inserted
  /\ UNCHANGED <<snapshots, maxSnapshotId, closed>>

\* TBtree.Insert
Insert(key, value, ts) ==
  /\ Locks
  /\ InsertWrites(InsertResult(key, value, ts), key, value, ts)
  /\ UNCHANGED <<rwmutex, threads>>

\* The lookup t.snapshots[t.maxSnapshotId]: nil for an id the map lacks.
SharedSnapshot ==
  IF maxSnapshotId \in DOMAIN snapshots THEN snapshots[maxSnapshotId]
  ELSE NilSnapshot

\* Snapshot takes its shared branch (line 206).
Shares == Cardinality(DOMAIN snapshots) > 0 /\ insertionCount <= insertionCountThreshold

\* The table with the snapshot s added under the id after its own.
WithSnapshotNextId(s) ==
  [i \in DOMAIN snapshots \cup {s.id + 1} |->
     IF i = s.id + 1 THEN s ELSE snapshots[i]]

\* The table with the snapshot s added under its id.
WithSnapshot(s) ==
  [i \in DOMAIN snapshots \cup {s.id} |-> IF i = s.id THEN s ELSE snapshots[i]]

\* TBtree.Snapshot after its Lock, with TBtree.newSnapshot
SnapshotCall ==
  /\ IF closed
     THEN /\ lastOp' = Returned("Snapshot", "AlreadyClosed", NilSnapshot)
          /\ UNCHANGED <<snapshots, maxSnapshotId, insertionCount>>
     ELSE IF Shares
     THEN /\ lastOp' = Returned("Snapshot", "nil", SharedSnapshot)
          /\ UNCHANGED <<snapshots, maxSnapshotId, insertionCount>>
     ELSE /\ maxSnapshotId < MaxSnapshots
          /\ snapshots' = WithSnapshot(SnapshotOf(maxSnapshotId, root))
          /\ maxSnapshotId' = maxSnapshotId + 1
          /\ insertionCount' = 0
          /\ lastOp' = Returned("Snapshot", "nil", SnapshotOf(maxSnapshotId, root))
  /\ UNCHANGED <<heap, root, closed, crashed, inserted>>

\* TBtree.Snapshot
Snapshot == Locks /\ SnapshotCall /\ UNCHANGED <<rwmutex, threads>>

\* TBtree.Close after its Lock. With insertions to flush it calls
\* t.Snapshot() while it holds rwmutex; Snapshot's rwmutex.Lock() then waits for
\* a lock its own caller holds, and neither returns.
CloseCall ==
  /\ IF closed
     THEN /\ lastOp' = Returned("Close", "AlreadyClosed", NilSnapshot)
          /\ UNCHANGED closed
     ELSE IF Cardinality(DOMAIN snapshots) > 0
     THEN /\ lastOp' = Returned("Close", "SnapshotsNotClosed", NilSnapshot)
          /\ UNCHANGED closed
     ELSE IF insertionCount > 0
     THEN /\ lastOp' = Returned("Close", "deadlock", NilSnapshot)
          /\ UNCHANGED closed
     ELSE /\ closed' = TRUE
          /\ lastOp' = Returned("Close", "nil", NilSnapshot)
  /\ UNCHANGED <<heap, root, insertionCount, snapshots, maxSnapshotId, crashed,
                 inserted>>

\* TBtree.Close: the lock stays taken when the call never returns.
Close ==
  /\ Locks
  /\ CloseCall
  /\ rwmutex' = IF lastOp'.err = "deadlock" THEN "locked" ELSE rwmutex
  /\ UNCHANGED threads

\* TBtree.snapshotClosed after its Lock.
SnapshotClosedCall(id) ==
  /\ IF closed
     THEN /\ lastOp' = Returned("snapshotClosed", "AlreadyClosed", NilSnapshot)
          /\ UNCHANGED snapshots
     ELSE /\ snapshots' = [i \in DOMAIN snapshots \ {id} |-> snapshots[i]]
          /\ lastOp' = Returned("snapshotClosed", "nil", NilSnapshot)
  /\ UNCHANGED <<heap, root, insertionCount, maxSnapshotId, closed, crashed,
                 inserted>>

\* snapshotClosed emptying the table instead of deleting one id.
SnapshotClosedClears(id) ==
  /\ Locks
  /\ IF closed
     THEN /\ lastOp' = Returned("snapshotClosed", "AlreadyClosed", NilSnapshot)
          /\ UNCHANGED snapshots
     ELSE /\ snapshots' = <<>>
          /\ lastOp' = Returned("snapshotClosed", "nil", NilSnapshot)
  /\ UNCHANGED <<heap, root, insertionCount, maxSnapshotId, closed, rwmutex,
                 crashed, inserted, threads>>

\* snapshotClosed without its check of t.closed.
SnapshotClosedUnchecked(id) ==
  /\ Locks
  /\ snapshots' = [i \in DOMAIN snapshots \ {id} |-> snapshots[i]]
  /\ lastOp' = Returned("snapshotClosed", "nil", NilSnapshot)
  /\ UNCHANGED <<heap, root, insertionCount, maxSnapshotId, closed, rwmutex,
                 crashed, inserted, threads>>

\* TBtree.snapshotClosed, called with a snapshot newSnapshot created.
SnapshotClosed(id) ==
  Locks /\ SnapshotClosedCall(id) /\ UNCHANGED <<rwmutex, threads>>

Next ==
  \/ \E in \in InsertInputs, ts \in TsInputs : Insert(in[1], in[2], ts)
  \/ Snapshot
  \/ Close
  \/ \E id \in 0..(maxSnapshotId - 1) : SnapshotClosed(id)

Spec == Init /\ [][Next]_vars

\* A reader calls findLeafNode on the root with an empty path; the tree is
\* not changed.
Locate(keyPrefix, neqKey, ascOrder) ==
  /\ ~crashed
  /\ lastOp' = [op |-> "findLeafNode", ret |-> NilSnapshot] @@
                FindLeafNode(heap, root, keyPrefix, <<>>, neqKey, ascOrder)
  /\ UNCHANGED <<heap, root, insertionCount, snapshots, maxSnapshotId, closed,
                 rwmutex, crashed, inserted, threads>>

\* The prefixes and the neqKeys (nil among them) of the findLeafNode calls.
PrefixInputs == {k.bytes : k \in KeyInputs}
NeqKeyInputs == KeyInputs

\* Trees built by Insert, and findLeafNode calls on them.
LocatorNext ==
  \/ \E in \in InsertInputs, ts \in TsInputs : Insert(in[1], in[2], ts)
  \/ \E keyPrefix \in PrefixInputs, neqKey \in NeqKeyInputs, ascOrder \in BOOLEAN :
       Locate(keyPrefix, neqKey, ascOrder)

LocatorSpec == Init /\ [][LocatorNext]_vars

\* The scenario of the small keys: entries "a"/"1", "b"/"2", ... of one-byte
\* key and one-byte value, inserted in any order at any ts up to ScenarioLen.
ScenarioInputs == {<<Bytes(<<96 + i>>), <<48 + i>>>> : i \in 1..ScenarioLen}

ScenarioNext ==
  \E in \in ScenarioInputs, ts \in 1..ScenarioLen : Insert(in[1], in[2], ts)

ScenarioSpec == Init /\ [][ScenarioNext]_vars

\* ------------------------------------------------------------- goroutines

\* The (key, value) pairs of the goroutines' Insert calls: the one-byte keys.
ConcInserts == {in \in InsertInputs : Len(in[1].bytes) = 1}

\* Goroutine t enters a call of op: its rwmutex.Lock() returns. snapshotClosed
\* is called with a snapshot newSnapshot created, so there has been one.
ThreadLock(t, op) ==
  /\ threads[t].pc = "idle"
  /\ Locks
  /\ op = "Snapshot" => (closed \/ Shares \/ maxSnapshotId < MaxSnapshots)
  /\ op = "snapshotClosed" => maxSnapshotId > 0
  /\ rwmutex' = "locked"
  /\ threads' = [threads EXCEPT ![t] = [Idle EXCEPT !.pc = "locked",
                                                    !.call = [op |-> op]]]
  /\ UNCHANGED <<heap, root, insertionCount, snapshots, maxSnapshotId, closed,
                 crashed, lastOp, inserted>>

\* The deferred rwmutex.Unlock() of goroutine t, as its call returns.
Unlocks(t) ==
  /\ rwmutex' = "unlocked"
  /\ threads' = [threads EXCEPT ![t] = Idle]

\* Insert(key, value, ts) in goroutine t, lines 165-176: it reads closed and
\* the root and builds the nodes of the new version.
ThreadInsertReads(t, key, value, ts) ==
  /\ ~crashed
  /\ threads[t].pc = "locked"
  /\ threads[t].call.op = "Insert"
  /\ threads' = [threads EXCEPT ![t] =
                   [pc |-> "computed",
                    call |-> [op |-> "Insert", key |-> key, value |-> value,
                              ts |-> ts],
                    local |-> InsertResult(key, value, ts)]]
  /\ UNCHANGED <<heap, root, insertionCount, snapshots, maxSnapshotId, closed,
                 rwmutex, crashed, lastOp, inserted>>

\* Insert in goroutine t, lines 178-195: it writes insertionCount and the
\* root, and returns.
ThreadInsertWrites(t) ==
  LET c == threads[t].call
  IN  /\ ~crashed
      /\ threads[t].pc = "computed"
      /\ InsertWrites(threads[t].local, c.key, c.value, c.ts)
      /\ Unlocks(t)

\* Snapshot in goroutine t.
ThreadSnapshot(t) ==
  /\ ~crashed
  /\ threads[t].pc = "locked"
  /\ threads[t].call.op = "Snapshot"
  /\ SnapshotCall
  /\ Unlocks(t)

\* Close in goroutine t; when it never returns the goroutine keeps the lock.
ThreadClose(t) ==
  /\ ~crashed
  /\ threads[t].pc = "locked"
  /\ threads[t].call.op = "Close"
  /\ CloseCall
  /\ IF lastOp'.err = "deadlock"
     THEN /\ threads' = [threads EXCEPT ![t].pc = "blocked"]
          /\ UNCHANGED rwmutex
     ELSE Unlocks(t)

\* snapshotClosed in goroutine t, with the snapshot of the given id.
ThreadSnapshotClosed(t, id) ==
  /\ ~crashed
  /\ threads[t].pc = "locked"
  /\ threads[t].call.op = "snapshotClosed"
  /\ SnapshotClosedCall(id)
  /\ Unlocks(t)

ConcNext ==
  \E t \in Threads :
    \/ \E op \in {"Insert", "Snapshot", "Close", "snapshotClosed"} :
         ThreadLock(t, op)
    \/ \E in \in ConcInserts, ts \in 1..MaxTs :
         ThreadInsertReads(t, in[1], in[2], ts)
    \/ ThreadInsertWrites(t)
    \/ ThreadSnapshot(t)
    \/ ThreadClose(t)
    \/ \E id \in 0..(maxSnapshotId - 1) : ThreadSnapshotClosed(t, id)

\* Several goroutines call the tree; each call runs under rwmutex.
ConcSpec == Init /\ [][ConcNext]_vars

\* -------------------------------------------------------------- properties

\* The keys a caller can ask for.
AllKeys == {k.bytes : k \in KeyInputs}

\* The positions in inserted of the successful inserts of key k.
InsertsOf(k) == {i \in 1..Len(inserted) : inserted[i].key = k}

\* The greatest element of a non-empty set of numbers.
Greatest(S) == CHOOSE x \in S : \A y \in S : y <= x

\* What get(k) is to return: the value and ts of the latest successful insert
\* of k, KeyNotFound when there is none.
LatestOf(k) ==
  IF InsertsOf(k) = {} THEN KeyNotFound
  ELSE Found(inserted[Greatest(InsertsOf(k))].value,
             inserted[Greatest(InsertsOf(k))].ts)

\* The ts key k held before its latest insert, 0 when that was its first.
PrevTsOf(k) ==
  LET before == InsertsOf(k) \ {Greatest(InsertsOf(k))}
  IN  IF before = {} THEN 0 ELSE inserted[Greatest(before)].ts

\* The entries of the leaves under the node at address a, left to right.
RECURSIVE InOrder(_, _)
InOrder(h, a) ==
  LET RECURSIVE Children(_)
      Children(i) ==
        IF i = 0 THEN <<>>
        ELSE Children(i - 1) \o InOrder(h, h[a].nodes[i].node)
  IN  IF h[a].kind = "leaf" THEN h[a].values ELSE Children(Len(h[a].nodes))

\* The addresses of the nodes under the node at address a, a included
\* (prevNode is not followed).
RECURSIVE Reachable(_, _)
Reachable(h, a) ==
  {a} \cup UNION {Reachable(h, h[a].nodes[i].node) : i \in 1..Len(h[a].nodes)}

\* The step is a call of Insert with some arguments.
InsertStep == \E in \in InsertInputs, ts \in TsInputs : Insert(in[1], in[2], ts)

C2_SnapshotIsolation ==
  [][heap' # heap => \A id \in DOMAIN snapshots :
       /\ \A a \in Reachable(heap, snapshots[id].root) : heap'[a] = heap[a]
       /\ \A k \in AllKeys :
            Get(heap', snapshots[id].root, k) = Get(heap, snapshots[id].root, k)
    ]_vars

\* A successful insert has just replaced the root while a snapshot holds an
\* older root that is an inner node.
C2_Witness ==
  /\ lastOp.op = "Insert"
  /\ lastOp.err = "nil"
  /\ \E id \in DOMAIN snapshots :
       /\ snapshots[id].root # root
       /\ heap[snapshots[id].root].kind = "inner"

\* C3 as stated: on an open tree with a live snapshot and insertionCount not
\* above the threshold, Snapshot() returns a snapshot of the table, the most
\* recently created one.
C3_SnapshotSharing ==
  [][(Snapshot /\ ~closed /\ Shares) =>
       /\ lastOp'.err = "nil"
       /\ lastOp'.ret.id \in DOMAIN snapshots
       /\ snapshots[lastOp'.ret.id] = lastOp'.ret
       /\ \A id \in DOMAIN snapshots : id <= lastOp'.ret.id]_vars

\* C4: the tree under the root is the map from each inserted key to its latest
\* value and ts: the entries of the leaves, left to right, have strictly
\* ascending keys, their keys are the inserted keys, each entry is the latest
\* insert of its key, and get on the root returns that entry for an inserted
\* key and KeyNotFound for any other.
C4_TreeIsLatestMap ==
  LET es == InOrder(heap, root)
  IN  /\ \A i \in 1..(Len(es) - 1) : Compare(es[i].key, es[i + 1].key) = -1
      /\ {es[i].key : i \in 1..Len(es)} =
           {inserted[i].key : i \in 1..Len(inserted)}
      /\ \A i \in 1..Len(es) : Found(es[i].value, es[i].ts) = LatestOf(es[i].key)
      /\ \A k \in AllKeys : Get(heap, root, k) = LatestOf(k)

\* Three inserts built a root over an inner node, and one key is absent.
C4_Witness ==
  /\ Len(inserted) = 3
  /\ heap[root].kind = "inner"
  /\ heap[heap[root].nodes[1].node].kind = "inner"
  /\ \E k \in AllKeys : Get(heap, root, k) = KeyNotFound

\* C5: every entry under the root has as prevTs the ts its key held just
\* before its latest insert, 0 when that insert was the key's first, and get
\* returns the value and ts of the latest insert.
C5_LatestWriteWinsPrevTs ==
  LET es == InOrder(heap, root)
  IN  \A i \in 1..Len(es) :
        /\ es[i].prevTs = PrevTsOf(es[i].key)
        /\ Get(heap, root, es[i].key) = Found(es[i].value, es[i].ts)
        /\ es[i].ts = inserted[Greatest(InsertsOf(es[i].key))].ts

\* A key was inserted at ts 1 and again at ts 3, with another key in between.
C5_Witness ==
  /\ Len(inserted) = 3
  /\ inserted[1].key = inserted[3].key
  /\ inserted[2].key # inserted[1].key
  /\ inserted[1].ts = 1
  /\ inserted[3].ts = 3
  /\ \E i \in 1..Len(InOrder(heap, root)) : InOrder(heap, root)[i].prevTs = 1

\* C6 as stated: on an open tree, Insert with a nil key, a key of length 0 or
\* ts <= root.ts fails with IllegalArgument and leaves the root,
\* insertionCount and the snapshot table as they were.
C6_InsertRejectsBadArguments ==
  [][\A in \in InsertInputs, ts \in TsInputs :
       (/\ Insert(in[1], in[2], ts)
        /\ ~closed
        /\ (in[1].isNil \/ Len(in[1].bytes) = 0 \/ ts <= Ts(heap, root)))
       => /\ lastOp'.err = "IllegalArgument"
          /\ UNCHANGED <<root, insertionCount, snapshots>>]_vars

\* C7: a successful Insert(k, v, ts) leaves root.ts = ts, above the root ts
\* before it, and insertionCount one higher.
C7_InsertSetsRootTs ==
  [][\A in \in InsertInputs, ts \in TsInputs :
       (lastOp'.op = "Insert" /\ lastOp'.err = "nil" /\ Insert(in[1], in[2], ts))
       => /\ Ts(heap', root') = ts
          /\ Ts(heap', root') > Ts(heap, root)
          /\ insertionCount' = insertionCount + 1]_vars

\* A successful insert has just split a leaf root into a root with two
\* children.
C7_Witness ==
  /\ lastOp.op = "Insert"
  /\ lastOp.err = "nil"
  /\ heap[root].kind = "inner"
  /\ heap[heap[root].prevNode].kind = "leaf"
  /\ insertionCount = 2

\* C8 as stated: on an open tree, every Insert with a key of one byte or more
\* and ts > root.ts returns without error.
C8_InsertTotal ==
  [][\A in \in InsertInputs, ts \in TsInputs :
       (/\ Insert(in[1], in[2], ts)
        /\ ~closed
        /\ ~in[1].isNil
        /\ Len(in[1].bytes) > 0
        /\ ts > Ts(heap, root))
       => lastOp'.err = "nil"]_vars

\* C9 as stated: after every successful Insert, every node under the root has
\* csize <= maxSize.
C9_SizeBudget ==
  (lastOp.op = "Insert" /\ lastOp.err = "nil")
  => \A a \in Reachable(heap, root) : heap[a].csize <= heap[a].maxSize

\* C10 as stated: Close() on an open tree with no live snapshot returns
\* without error and leaves the tree closed.
C10_CloseTerminates ==
  [][(Close /\ ~closed /\ DOMAIN snapshots = {})
       => (lastOp'.err = "nil" /\ closed')]_vars

\* C11: Close() on an open tree fails with SnapshotsNotClosed exactly when the
\* snapshot table is non-empty, and then the tree stays open with its root,
\* insertionCount and table as they were; snapshotClosed(s) on an open tree
\* removes the id of s from the table, keeps every other id with its snapshot,
\* and changes nothing else.
C11_CloseAndReleaseOnOpenTree ==
  [][/\ (Close /\ ~closed) =>
          /\ (lastOp'.err = "SnapshotsNotClosed") <=> (DOMAIN snapshots # {})
          /\ (DOMAIN snapshots # {}) =>
                (~closed' /\ UNCHANGED <<heap, root, insertionCount, snapshots,
                                         maxSnapshotId>>)
     /\ \A id \in 0..(maxSnapshotId - 1) : (SnapshotClosed(id) /\ ~closed) =>
          /\ lastOp'.err = "nil"
          /\ DOMAIN snapshots' = DOMAIN snapshots \ {id}
          /\ \A i \in DOMAIN snapshots' : snapshots'[i] = snapshots[i]
          /\ UNCHANGED <<heap, root, insertionCount, maxSnapshotId, closed>>]_vars

\* Of two live snapshots the first was released, and the Close() after it
\* failed with SnapshotsNotClosed.
C11_Witness ==
  /\ lastOp.op = "Close"
  /\ lastOp.err = "SnapshotsNotClosed"
  /\ DOMAIN snapshots = {1}
  /\ ~closed

\* C12: from a closed tree every step is a call that fails with AlreadyClosed
\* and leaves the root, the nodes, insertionCount, the table and the id
\* counter as they were, and the tree closed.
C12_ClosedIsAbsorbing ==
  [][closed =>
       /\ closed'
       /\ lastOp'.err = "AlreadyClosed"
       /\ UNCHANGED <<heap, root, insertionCount, snapshots, maxSnapshotId>>]_vars

\* A tree that holds an insert was closed, and a snapshotClosed after that
\* failed with AlreadyClosed.
C12_Witness ==
  /\ closed
  /\ lastOp.op = "snapshotClosed"
  /\ lastOp.err = "AlreadyClosed"
  /\ Len(inserted) > 0

\* C13: a Snapshot() call on an open tree with no live snapshot, or with
\* insertionCount above the threshold, returns a new snapshot of the current
\* root whose id is above the id of every live snapshot and takes the value of
\* the id counter, which the call raises by one and no step lowers; the table
\* gains the snapshot under its id and keeps its other entries, and
\* insertionCount becomes 0.
C13_FreshSnapshot ==
  [][/\ maxSnapshotId' >= maxSnapshotId
     /\ \A id \in DOMAIN snapshots : id < maxSnapshotId
     /\ (Snapshot /\ ~closed /\ ~Shares) =>
          /\ lastOp'.err = "nil"
          /\ lastOp'.ret = SnapshotOf(maxSnapshotId, root)
          /\ maxSnapshotId' = lastOp'.ret.id + 1
          /\ DOMAIN snapshots' = DOMAIN snapshots \cup {lastOp'.ret.id}
          /\ snapshots'[lastOp'.ret.id] = lastOp'.ret
          /\ \A id \in DOMAIN snapshots : snapshots'[id] = snapshots[id]
          /\ insertionCount' = 0
          /\ UNCHANGED <<heap, root>>]_vars

\* The first snapshot was released and a second one, of a root that holds an
\* insert, was created after it.
C13_Witness ==
  /\ lastOp.op = "Snapshot"
  /\ lastOp.ret.id = 1
  /\ DOMAIN snapshots = {1}
  /\ insertionCount = 0
  /\ Len(inserted) > 0

\* The sum of the numbers of a sequence.
RECURSIVE SumOf(_)
SumOf(ns) == IF Len(ns) = 0 THEN 0 ELSE ns[1] + SumOf(Tail(ns))

\* C17: for every inner node under the root and every slot of it, the slot's
\* key is the max key of the child it refers to and the slot's cts is the
\* child's cts.
C17_ChildReferencesConsistent ==
  \A a \in Reachable(heap, root) : \A i \in 1..Len(heap[a].nodes) :
    LET ref == heap[a].nodes[i]
    IN  /\ ~MaxKeyPanics(heap, ref.node)
        /\ ref.key = MaxKey(heap, ref.node)
        /\ ref.cts = heap[ref.node].cts

\* A successful insert split an inner node: the root is a fresh node over the
\* cut-down inner node and its new right sibling.
C17_Witness ==
  /\ lastOp.op = "Insert"
  /\ lastOp.err = "nil"
  /\ heap[root].kind = "inner"
  /\ Len(heap[root].nodes) = 2
  /\ heap[heap[root].nodes[1].node].kind = "inner"
  /\ heap[heap[root].nodes[2].node].kind = "inner"

\* C18: every node under the root that has entries has as cts the greatest ts
\* of its entries (leaf) or the greatest cts of its child references (inner).
C18_TimestampAggregation ==
  \A a \in Reachable(heap, root) :
    /\ (heap[a].kind = "leaf" /\ Len(heap[a].values) > 0) =>
         heap[a].cts =
           Greatest({heap[a].values[i].ts : i \in 1..Len(heap[a].values)})
    /\ (heap[a].kind = "inner" /\ Len(heap[a].nodes) > 0) =>
         heap[a].cts =
           Greatest({heap[a].nodes[i].cts : i \in 1..Len(heap[a].nodes)})

\* A split left a leaf under the root whose last entry is older than its
\* first.
C18_Witness ==
  /\ heap[root].kind = "inner"
  /\ \E a \in Reachable(heap, root) :
       /\ heap[a].kind = "leaf"
       /\ Len(heap[a].values) = 2
       /\ heap[a].values[2].ts < heap[a].values[1].ts

\* C19 as stated: every leaf under the root has as csize the sum of
\* 16 + len(key) + len(value) over its entries, and every inner node the sum
\* of the lengths of its slots' keys.
C19_SizeAccounting ==
  \A a \in Reachable(heap, root) :
    /\ heap[a].kind = "leaf" =>
         heap[a].csize =
           SumOf([i \in 1..Len(heap[a].values) |->
                    16 + Len(heap[a].values[i].key) + Len(heap[a].values[i].value)])
    /\ heap[a].kind = "inner" =>
         heap[a].csize =
           SumOf([i \in 1..Len(heap[a].nodes) |-> Len(heap[a].nodes[i].key)])

\* The first n entries of the scenario, inserted in order at ts 1, 2, ...
ScenarioInserted(n) ==
  [i \in 1..n |-> [key |-> <<96 + i>>, value |-> <<48 + i>>, ts |-> i]]

\* The keys of a sequence of entries.
KeysOf(es) == [i \in 1..Len(es) |-> es[i].key]

\* C20 as stated: after ("a","1",1), ("b","2",2), ("c","3",3) on a new tree
\* with maxNodeSize 64 the root is an inner node with two leaf children, the
\* keys in order are a, b, c and root.cts = 3.
C20_ThirdInsertSplits ==
  inserted = ScenarioInserted(3) =>
    /\ heap[root].kind = "inner"
    /\ Len(heap[root].nodes) = 2
    /\ \A i \in 1..2 : heap[heap[root].nodes[i].node].kind = "leaf"
    /\ KeysOf(InOrder(heap, root)) = <<<<97>>, <<98>>, <<99>>>>
    /\ heap[root].cts = 3

\* C20 amended: after ("a","1",1), ("b","2",2), ("c","3",3) the root is still
\* one leaf, with keys a, b, c in order, csize 3 * 18 = 54 <= 64 and cts 3; the
\* fourth such entry, ("d","4",4), brings the leaf to 72 > 64 and the root
\* becomes an inner node over the leaves (a, b, c) and (d), with cts 4.
C20_FourthInsertSplits ==
  /\ inserted = ScenarioInserted(3) =>
       /\ heap[root].kind = "leaf"
       /\ KeysOf(heap[root].values) = <<<<97>>, <<98>>, <<99>>>>
       /\ heap[root].csize = 54
       /\ heap[root].cts = 3
  /\ inserted = ScenarioInserted(4) =>
       /\ heap[root].kind = "inner"
       /\ Len(heap[root].nodes) = 2
       /\ heap[heap[root].nodes[1].node].kind = "leaf"
       /\ heap[heap[root].nodes[2].node].kind = "leaf"
       /\ KeysOf(heap[heap[root].nodes[1].node].values) = <<<<97>>, <<98>>, <<99>>>>
       /\ KeysOf(heap[heap[root].nodes[2].node].values) = <<<<100>>>>
       /\ heap[root].cts = 4

\* The three inserts of the scenario have just been made.
C20_Witness ==
  /\ inserted = ScenarioInserted(3)
  /\ lastOp.op = "Insert"
  /\ lastOp.err = "nil"
  /\ insertionCount = 3

\* The positions in the entries es of the keys k with k <= keyPrefix and
\* k < neqKey.
QualifiesDescending(es, keyPrefix, neqKey) ==
  {i \in 1..Len(es) : /\ Compare(es[i].key, keyPrefix) <= 0
                       /\ Compare(es[i].key, neqKey.bytes) < 0}

\* The positions in the entries es of the keys k with k >= keyPrefix and,
\* when there is a neqKey, k > neqKey.
QualifiesAscending(es, keyPrefix, neqKey) ==
  {i \in 1..Len(es) : /\ Compare(es[i].key, keyPrefix) >= 0
                       /\ (neqKey.isNil \/ Compare(es[i].key, neqKey.bytes) > 0)}

\* path holds the inner nodes from the root down to the parent of leaf.
IsPathTo(path, leaf) ==
  LET full == Append(path, leaf)
  IN  /\ full[1] = root
      /\ \A j \in 1..Len(path) :
           /\ heap[path[j]].kind = "inner"
           /\ \E i \in 1..Len(heap[path[j]].nodes) :
                heap[path[j]].nodes[i].node = full[j + 1]

\* C14 as stated: findLeafNode on the root with ascOrder false and a neqKey
\* returns the position of the greatest stored key k with k <= keyPrefix and
\* k < neqKey, and KeyNotFound exactly when no stored key is such.
C14_DescendingLocator ==
  [][\A keyPrefix \in PrefixInputs, neqKey \in NeqKeyInputs :
       (lastOp'.op = "findLeafNode" /\ ~neqKey.isNil
          /\ Locate(keyPrefix, neqKey, FALSE))
       => LET es == InOrder(heap, root)
              q == QualifiesDescending(es, keyPrefix, neqKey)
              r == lastOp'
          IN  IF q = {} THEN r.err = "KeyNotFound"
              ELSE /\ r.err = "nil"
                   /\ heap[r.leaf].kind = "leaf"
                   /\ heap[r.leaf].values[r.index] = es[Greatest(q)]]_vars

\* C15 as stated: findLeafNode on the root with ascOrder true returns the leaf
\* and position of the smallest stored key k with k >= keyPrefix and
\* k > neqKey (no lower bound with a nil neqKey), with the inner nodes from the
\* root to that leaf as path, and KeyNotFound exactly when no stored key is
\* such.
C15_AscendingLocator ==
  [][\A keyPrefix \in PrefixInputs, neqKey \in NeqKeyInputs :
       (lastOp'.op = "findLeafNode" /\ Locate(keyPrefix, neqKey, TRUE))
       => LET es == InOrder(heap, root)
              q == QualifiesAscending(es, keyPrefix, neqKey)
              r == lastOp'
          IN  IF q = {} THEN r.err = "KeyNotFound"
              ELSE /\ r.err = "nil"
                   /\ heap[r.leaf].kind = "leaf"
                   /\ heap[r.leaf].values[r.index] =
                        es[CHOOSE i \in q : \A j \in q : i <= j]
                   /\ IsPathTo(r.path, r.leaf)]_vars

\* C16 as stated: however the calls of the goroutines interleave, (a) what an
\* Insert writes is what it would compute from the tree at the moment it
\* writes, so each call takes effect at one point of a sequential order;
\* (b) get on the root returns, for each key, the latest successful insert,
\* so none is lost; (c) the successful inserts have strictly increasing ts;
\* (d) insertionCount is the number of successful inserts since the last
\* creation of a snapshot: a step that creates a snapshot makes it 0, and any
\* other step raises it by the number of inserts that succeeded in it.
C16_LinearizableWrites ==
  [][/\ \A t \in Threads : ThreadInsertWrites(t) =>
          threads[t].local = InsertResult(threads[t].call.key,
                                          threads[t].call.value,
                                          threads[t].call.ts)
     /\ (\A k \in AllKeys : Get(heap, root, k) = LatestOf(k))'
     /\ (\A i \in 1..(Len(inserted) - 1) : inserted[i].ts < inserted[i + 1].ts)'
     /\ insertionCount' =
          IF maxSnapshotId' # maxSnapshotId THEN 0
          ELSE insertionCount + Len(inserted') - Len(inserted)]_vars

====
